---- MODULE Spec2Model ----
(***************************************************************************)
(* A model of the ClawChain extension of OpenClaw:                         *)
(*   - ChainEventListener (extensions/clawchain/src/events.ts): the        *)
(*     WebSocket event stream with its reconnect timer,                    *)
(*   - handleEvent (same file): turning a frame into handler calls,        *)
(*   - checkChainHeartbeat (same file),                                    *)
(*   - initializeAgentIdentity (extensions/clawchain/src/identity.ts),     *)
(*   - initializeBlockchain and shutdownBlockchain with the module-level   *)
(*     handles (the extension's index.ts),                                 *)
(*   - the nine tools (extensions/clawchain/src/tools.ts).                 *)
(*                                                                         *)
(* The specifications share the variables:                                 *)
(*   Spec             the listener driven by its caller (start, stop) and  *)
(*                    by its sockets and timer (open, message, error,      *)
(*                    close, timer);  SpecLive is Spec with the fairness   *)
(*                    the event loop gives (a pending timer fires, a       *)
(*                    failed socket delivers its close event);             *)
(*   SpecFrames       ws.onmessage applied to every frame of a bounded     *)
(*                    set;                                                 *)
(*   SpecIdentity     one call of initializeAgentIdentity;                 *)
(*   SpecCoordinator  calls of initializeBlockchain and shutdownBlockchain *)
(*                    on the module-level handles;                         *)
(*   SpecHeartbeat    one call of checkChainHeartbeat;                     *)
(*   SpecTools        one call of execute of one tool.                     *)
(***************************************************************************)
EXTENDS Integers, Sequences, FiniteSets, TLC

VARIABLES
  stopped,        \* ChainEventListener.stopped
  ws,             \* ChainEventListener.ws: 0 is null, s > 0 a live socket,
                  \* -1 a socket whose close event has been delivered
  reconnectTimer, \* ChainEventListener.reconnectTimer: 0 is null, otherwise
                  \* the delay in ms the pending timer was set with
  socks,          \* the WebSockets the listener created that can still
                  \* deliver an event, by slot
  clock,          \* the latest reading of Date.now()
  last,           \* what the handler that ran last did
  frame,          \* the frame given to ws.onmessage last
  calls,          \* the onNewCommitment/onAgentRegistered calls it made
  halted,         \* the caller's view: stop() returned, start() not called since
  everStarted,    \* the caller's view: start() was called at least once
  attemptParity,  \* number of `new WebSocket` attempts so far, modulo 2
  cfg,            \* initializeAgentIdentity: its config argument
  ipc,            \* initializeAgentIdentity: where the call is
  agentCalls,     \* initializeAgentIdentity: calls made on ClawChainAgent, in order
  registered,     \* initializeAgentIdentity: local `registered`
  autoRegistered, \* initializeAgentIdentity: local `autoRegistered`
  result,         \* initializeAgentIdentity: what the call returned
  chainClient,    \* index.ts `chainClient`: 0 is null, a > 0 the client of agents[a]
  chainAgent,     \* index.ts `chainAgent`: 0 is null, a > 0 is agents[a]
  eventListener,  \* index.ts `eventListener`: 0 is null, l > 0 is listeners[l]
  agents,         \* the ClawChainAgent objects initializeBlockchain received
  listeners,      \* the ChainEventListener objects initializeBlockchain created
  cpc,            \* initializeBlockchain: where the call is
  enabled,        \* initializeBlockchain: config.enabled of the latest call
  creturn,        \* initializeBlockchain: how the latest call ended
  inits,          \* number of calls of initializeBlockchain so far
  teardown,       \* what the latest call of shutdownBlockchain did, and when:
                  \* where initializeBlockchain was, and how many calls had begun
  hpc,            \* checkChainHeartbeat: where the call is
  hurl,           \* checkChainHeartbeat: its rpcUrl argument
  gets,           \* checkChainHeartbeat: the URLs it called fetch with
  fetched,        \* checkChainHeartbeat: how the fetch promise settled
  body,           \* checkChainHeartbeat: the body response.json() read
  heartbeat,      \* checkChainHeartbeat: what the call returned
  server,         \* whether the node at rpcUrl answers a request it accepted
  tool,           \* the tool whose execute is called
  params,         \* execute: its params argument
  tpc,            \* execute: where the call is
  toolCalls,      \* execute: the awaited calls on the client and the agent, in order
  payload         \* execute: what the call returned

listenerVars == <<stopped, ws, reconnectTimer, socks, clock, last, halted,
                  everStarted, attemptParity>>
frameVars == <<frame, calls>>
identityVars == <<cfg, ipc, agentCalls, registered, autoRegistered, result>>
coordVars == <<chainClient, chainAgent, eventListener, agents, listeners, cpc,
               enabled, creturn, inits, teardown>>
heartbeatVars == <<hpc, hurl, gets, fetched, body, heartbeat, server>>
toolVars == <<tool, params, tpc, toolCalls, payload>>
vars == <<listenerVars, frameVars, identityVars, coordVars, heartbeatVars, toolVars>>

-----------------------------------------------------------------------------
(* Bounds of the model. *)

\* sockets of one listener that can still deliver an event, plus a pending timer
MaxSocks == 2
\* readings of Date.now() are 0..MaxTime
MaxTime == 1
\* entries of one array of result.events
MaxItems == 2

\* the delay scheduleReconnect passes to setTimeout
RECONNECT_DELAY_MS == 5000

SockIds == 1..MaxSocks

-----------------------------------------------------------------------------
(* JavaScript values, as far as handleEvent looks at them. A string is a   *)
(* sequence of one-character strings. *)

Undefined == [t |-> "undefined"]
JNull == [t |-> "null"]
JBool(b) == [t |-> "bool", b |-> b]
JNum(n) == [t |-> "num", n |-> n]
JStr(s) == [t |-> "str", s |-> s]
JArr(a) == [t |-> "arr", a |-> a]
JObj(f) == [t |-> "obj", f |-> f]

\* a JavaScript number that may be NaN
Num(n) == [nan |-> FALSE, v |-> n]
NaN == [nan |-> TRUE, v |-> 0]

\* ToBoolean
Truthy(v) ==
  CASE v.t = "undefined" -> FALSE
    [] v.t = "null" -> FALSE
    [] v.t = "bool" -> v.b
    [] v.t = "num" -> v.n # 0
    [] v.t = "str" -> v.s # <<>>
    [] OTHER -> TRUE

\* v?.[k]: undefined on null and undefined, the own property otherwise
Get(v, k) ==
  CASE v.t = "obj" -> IF k \in DOMAIN v.f THEN v.f[k] ELSE Undefined
    [] OTHER -> Undefined

\* v.length, 0 standing for "no loop iteration" where length is undefined
Length(v) ==
  CASE v.t = "arr" -> Len(v.a)
    [] v.t = "str" -> Len(v.s)
    [] OTHER -> 0

\* v[i], i counted from 1
At(v, i) ==
  CASE v.t = "arr" -> IF i \in 1..Len(v.a) THEN v.a[i] ELSE Undefined
    [] v.t = "str" -> IF i \in 1..Len(v.s) THEN JStr(<<v.s[i]>>) ELSE Undefined
    [] OTHER -> Undefined

\* a ?? b
Coalesce(a, b) == IF a.t \in {"undefined", "null"} THEN b ELSE a

Digits == {"0", "1", "2", "3", "4", "5", "6", "7", "8", "9"}
DigitVal(c) ==
  CASE c = "0" -> 0 [] c = "1" -> 1 [] c = "2" -> 2 [] c = "3" -> 3 [] c = "4" -> 4
    [] c = "5" -> 5 [] c = "6" -> 6 [] c = "7" -> 7 [] c = "8" -> 8 [] c = "9" -> 9

RECURSIVE SkipSpace(_)
SkipSpace(s) == IF s # <<>> /\ Head(s) = " " THEN SkipSpace(Tail(s)) ELSE s

\* the value of the longest prefix of digits of s, continuing from acc
RECURSIVE DigitRun(_, _, _)
DigitRun(s, acc, seen) ==
  IF s # <<>> /\ Head(s) \in Digits
  THEN DigitRun(Tail(s), acc * 10 + DigitVal(Head(s)), TRUE)
  ELSE [seen |-> seen, v |-> acc]

\* parseInt(s, 10) of a string
ParseInt(s) ==
  LET t == SkipSpace(s)
      neg == t # <<>> /\ Head(t) = "-"
      u == IF t # <<>> /\ Head(t) \in {"-", "+"} THEN Tail(t) ELSE t
      r == DigitRun(u, 0, FALSE)
  IN IF ~r.seen THEN NaN ELSE Num(IF neg THEN -r.v ELSE r.v)

\* parseInt(v, 10): ToString(v) first
ParseIntOf(v) ==
  CASE v.t = "str" -> ParseInt(v.s)
    [] v.t = "num" -> Num(v.n)
    [] OTHER -> NaN

-----------------------------------------------------------------------------
(* A frame is the text of a message event: text JSON.parse rejects, or the *)
(* text of a JSON value. *)

Garbage == [json |-> FALSE, value |-> Undefined]
Json(v) == [json |-> TRUE, value |-> v]
NoFrame == [json |-> FALSE, value |-> JNull]

\* JSON.parse(String(event.data))
JSONParse(f) == IF f.json THEN [ok |-> TRUE, value |-> f.value]
                ELSE [ok |-> FALSE, value |-> Undefined]

NewCommitment(c, n) == [h |-> "onNewCommitment", a |-> c, leafIndex |-> n, b |-> <<>>]
AgentRegistered(a, n) == [h |-> "onAgentRegistered", a |-> a, leafIndex |-> Num(0), b |-> n]

\* the name handleEvent passes when agent_register.name has no entry
UnknownName == JStr(<<"u", "n", "k", "n", "o", "w", "n">>)

\* parseInt(e, 10) || -1
LeafIndexOrDefault(e) ==
  LET n == ParseIntOf(e) IN IF n.nan \/ n.v = 0 THEN Num(-1) ELSE n

\* the leaf index handleEvent passes for the entry e of shield.leaf_index
LeafIndexOf(e) == IF Truthy(e) THEN ParseIntOf(e) ELSE Num(-1)

RECURSIVE CommitmentCalls(_, _, _)
CommitmentCalls(commitments, leafIndices, i) ==
  IF i > Length(commitments) THEN <<>>
  ELSE <<NewCommitment(At(commitments, i), LeafIndexOf(At(leafIndices, i)))>>
       \o CommitmentCalls(commitments, leafIndices, i + 1)

RECURSIVE AgentCalls(_, _, _)
AgentCalls(addresses, names, i) ==
  IF i > Length(addresses) THEN <<>>
  ELSE <<AgentRegistered(At(addresses, i), Coalesce(At(names, i), UnknownName))>>
       \o AgentCalls(addresses, names, i + 1)

\* ChainEventListener.handleEvent: the handler calls it makes, in order
handleEvent(data) ==
  LET res == Get(data, "result")
      events == Get(res, "events")
  IN IF ~Truthy(events) THEN <<>>
     ELSE (IF Truthy(Get(events, "shield.commitment"))
           THEN CommitmentCalls(Get(events, "shield.commitment"),
                                Coalesce(Get(events, "shield.leaf_index"), JArr(<<>>)), 1)
           ELSE <<>>)
          \o
          (IF Truthy(Get(events, "agent_register.address"))
           THEN AgentCalls(Get(events, "agent_register.address"),
                           Coalesce(Get(events, "agent_register.name"), JArr(<<>>)), 1)
           ELSE <<>>)

\* ws.onmessage without its try/catch: what JSON.parse throws leaves the handler
onmessageNoCatch(f) ==
  LET p == JSONParse(f)
  IN IF p.ok THEN [calls |-> handleEvent(p.value), threw |-> FALSE]
     ELSE [calls |-> <<>>, threw |-> TRUE]

\* ws.onmessage: parse, hand to handleEvent, swallow what either throws
onmessage(f) ==
  LET p == JSONParse(f)
  IN IF p.ok THEN [calls |-> handleEvent(p.value), threw |-> FALSE]
     ELSE [calls |-> <<>>, threw |-> FALSE]

-----------------------------------------------------------------------------
(* The listener. Its methods are operators on a record L of its fields,    *)
(* which also collects what one handler run did: errs (calls of            *)
(* handlers.onError), tried (calls of new WebSocket), sent (requests       *)
(* handed to ws.send) and threw (an exception left the handler). *)

Self == [stopped |-> stopped, ws |-> ws, reconnectTimer |-> reconnectTimer,
         socks |-> socks, errs |-> 0, tried |-> 0, sent |-> <<>>, threw |-> FALSE]

ShieldQuery == "tm.event='Tx' AND shield.commitment EXISTS"
AgentQuery == "tm.event='Tx' AND agent_register.address EXISTS"

\* ws.readyState of the socket a reference denotes
ReadyState(sk, ref) ==
  IF ref \in SockIds
  THEN (IF sk[ref] \in {"CONNECTING", "OPEN", "CLOSING"} THEN sk[ref] ELSE "CLOSED")
  ELSE "CLOSED"

\* the slot new WebSocket takes
FreeSlot(sk) == CHOOSE s \in SockIds : sk[s] = "FREE" /\ \A r \in SockIds : sk[r] = "FREE" => s <= r

\* WebSocket.close(): starts the closing handshake of a connecting or open socket
CloseSock(sk, ref) ==
  IF ref \in SockIds /\ sk[ref] \in {"CONNECTING", "OPEN"}
  THEN [sk EXCEPT ![ref] = "CLOSING"] ELSE sk

scheduleReconnect(L) ==
  IF L.reconnectTimer # 0 \/ L.stopped THEN L
  ELSE [L EXCEPT !.reconnectTimer = RECONNECT_DELAY_MS]

\* connect() whose catch reports the error and schedules nothing
connectGivesUp(L, ctorThrows) ==
  IF L.stopped THEN L
  ELSE IF ctorThrows
       THEN [L EXCEPT !.tried = @ + 1, !.errs = @ + 1]
       ELSE LET s == FreeSlot(L.socks)
            IN [L EXCEPT !.tried = @ + 1, !.ws = s, !.socks[s] = "CONNECTING"]

\* connect(); ctorThrows: new WebSocket(wsUrl) throws, which leaves this.ws
\* as it was
connect(L, ctorThrows) ==
  IF L.stopped THEN L
  ELSE IF ctorThrows
       THEN LET E == [L EXCEPT !.tried = @ + 1, !.errs = @ + 1]
            IN IF ~E.stopped THEN scheduleReconnect(E) ELSE E
       ELSE LET s == FreeSlot(L.socks)
            IN [L EXCEPT !.tried = @ + 1, !.ws = s, !.socks[s] = "CONNECTING"]

start(L, ctorThrows) == connect([L EXCEPT !.stopped = FALSE], ctorThrows)

\* stop() that leaves a pending reconnect timer running
stopKeepsTimer(L) ==
  LET L1 == [L EXCEPT !.stopped = TRUE]
  IN IF L1.ws # 0
     THEN [L1 EXCEPT !.socks = CloseSock(@, L1.ws), !.ws = 0]
     ELSE L1

\* stop() that calls this.ws.close() with neither the null check nor the try
stopUnguarded(L) ==
  LET L1 == [L EXCEPT !.stopped = TRUE]
      L2 == IF L1.reconnectTimer # 0 THEN [L1 EXCEPT !.reconnectTimer = 0] ELSE L1
  IN IF L2.ws # 0
     THEN [L2 EXCEPT !.socks = CloseSock(@, L2.ws), !.ws = 0]
     ELSE [L2 EXCEPT !.threw = TRUE]

stop(L) ==
  LET L1 == [L EXCEPT !.stopped = TRUE]
      L2 == IF L1.reconnectTimer # 0 THEN [L1 EXCEPT !.reconnectTimer = 0] ELSE L1
  IN IF L2.ws # 0
     THEN [L2 EXCEPT !.socks = CloseSock(@, L2.ws), !.ws = 0]
     ELSE L2

\* subscribe(query); t: what Date.now() returns if it is called
subscribe(L, query, t) ==
  IF L.ws = 0 \/ ReadyState(L.socks, L.ws) # "OPEN" THEN L
  ELSE [L EXCEPT !.sent = Append(@, [sock |-> L.ws, id |-> t, query |-> query])]

\* ws.onopen
onopen(L, t1, t2) == subscribe(subscribe(L, ShieldQuery, t1), AgentQuery, t2)

\* ws.onerror
onerror(L) == [L EXCEPT !.errs = @ + 1]

\* ws.onclose
onclose(L) == IF ~L.stopped THEN scheduleReconnect(L) ELSE L

\* the callback scheduleReconnect gives to setTimeout
ontimer(L, ctorThrows) == connect([L EXCEPT !.reconnectTimer = 0], ctorThrows)

\* The connection state of spec section 3, read off the fields
ConnState ==
  IF reconnectTimer # 0 THEN "Reconnecting"
  ELSE IF ReadyState(socks, ws) = "CONNECTING" THEN "Connecting"
  ELSE IF ReadyState(socks, ws) = "OPEN" THEN "Connected"
  ELSE "Disconnected"

-----------------------------------------------------------------------------
(* Actions of the listener. The sockets follow the WebSocket interface the *)
(* code uses (global WebSocket, on* properties): a socket created by new    *)
(* WebSocket is CONNECTING; it opens at most once and never after close()   *)
(* was called on it or its transport failed; message events are dispatched  *)
(* only while readyState is OPEN; an error event is followed by the close   *)
(* event; after its close event a socket delivers nothing more, and its     *)
(* slot is free for the next socket. close() without arguments does not     *)
(* throw. The handlers given to the listener (onNewCommitment,              *)
(* onAgentRegistered, onError) return normally. *)

Commit(L, op, s) ==
  /\ stopped' = L.stopped
  /\ ws' = L.ws
  /\ reconnectTimer' = L.reconnectTimer
  /\ socks' = L.socks
  /\ last' = [op |-> op, sock |-> s, errs |-> L.errs, tried |-> L.tried,
              sent |-> L.sent, threw |-> L.threw]
  /\ attemptParity' = (attemptParity + L.tried) % 2
  /\ clock' = IF L.sent = <<>> THEN clock ELSE L.sent[Len(L.sent)].id

\* sockets that can still deliver an event, plus the pending timer
Potential ==
  Cardinality({s \in SockIds : socks[s] # "FREE"}) + (IF reconnectTimer # 0 THEN 1 ELSE 0)

NoMessage == frame' = NoFrame /\ calls' = <<>>

\* start(), called while the model has room for one more socket
Start ==
  /\ Potential < MaxSocks
  /\ \E ctorThrows \in BOOLEAN : Commit(start(Self, ctorThrows), "start", 0)
  /\ halted' = FALSE
  /\ everStarted' = TRUE
  /\ NoMessage
  /\ UNCHANGED <<identityVars, coordVars, heartbeatVars, toolVars>>

Stop ==
  /\ Commit(stop(Self), "stop", 0)
  /\ halted' = TRUE
  /\ NoMessage
  /\ UNCHANGED <<everStarted, identityVars, coordVars, heartbeatVars, toolVars>>

\* socket s opens; each subscribe reads Date.now(), which returns the last
\* reading or a later one
SockOpen(s) ==
  /\ socks[s] = "CONNECTING"
  /\ \E t1 \in {t \in {clock, clock + 1} : t <= MaxTime} :
       \E t2 \in {t \in {t1, t1 + 1} : t <= MaxTime} :
         Commit(onopen([Self EXCEPT !.socks[s] = "OPEN"], t1, t2), "open", s)
  /\ NoMessage
  /\ UNCHANGED <<halted, everStarted, identityVars, coordVars, heartbeatVars, toolVars>>

\* frames that are not JSON, or JSON without a result.events mapping
MalformedFrames ==
  { Garbage, Json(JNull), Json(JNum(7)), Json(JStr(<<"a">>)), Json(JBool(TRUE)),
    Json(JArr(<<>>)),
    Json(JObj(<<>>)),
    Json(JObj([result |-> JNull])),
    Json(JObj([result |-> JStr(<<"a">>)])),
    Json(JObj([result |-> JObj(<<>>)])),
    Json(JObj([result |-> JObj([events |-> JNull])])),
    Json(JObj([result |-> JObj([events |-> JNum(7)])])),
    Json(JObj([result |-> JObj([events |-> JStr(<<"a">>)])])) }

\* the frame whose result.events is the mapping m
EventsFrame(m) == Json(JObj([result |-> JObj([events |-> JObj(m)])]))

\* the arrays of at most MaxItems strings taken from T
StrArrays(T) ==
  UNION { { JArr([i \in 1..n |-> JStr(a[i])]) : a \in [1..n -> T] } : n \in 0..MaxItems }

CommitmentTexts == { <<"a">>, <<"b">> }
LeafTexts == { <<"4">>, <<"0">>, <<"1", "2">>, <<"-", "4">>, <<"4", "a">>, <<"a">>,
               <<>>, <<" ", "4">> }
AddressTexts == { <<"x">>, <<"y">> }
NameTexts == { <<"n">>, <<>> }

CommitmentFrames ==
  { EventsFrame("shield.commitment" :> cs @@ "shield.leaf_index" :> ls) :
      cs \in StrArrays(CommitmentTexts), ls \in StrArrays(LeafTexts) }
  \cup { EventsFrame("shield.commitment" :> cs) : cs \in StrArrays(CommitmentTexts) }

AgentFrames ==
  { EventsFrame("agent_register.address" :> as @@ "agent_register.name" :> ns) :
      as \in StrArrays(AddressTexts), ns \in StrArrays(NameTexts) }
  \cup { EventsFrame("agent_register.address" :> as) : as \in StrArrays(AddressTexts) }

MixedFrames ==
  { EventsFrame(<<>>),
    EventsFrame("shield.commitment" :> JArr(<<JStr(<<"a">>)>>)
                @@ "shield.leaf_index" :> JArr(<<JStr(<<"4">>)>>)
                @@ "agent_register.address" :> JArr(<<JStr(<<"x">>)>>)
                @@ "agent_register.name" :> JArr(<<JStr(<<"n">>)>>)) }

\* the frames ws.onmessage is applied to in SpecFrames
Frames == MalformedFrames \cup CommitmentFrames \cup AgentFrames \cup MixedFrames

\* the frames the listener is sent in Spec: one of each way handleEvent can
\* leave early, and one of each kind of event
WireFrames ==
  { Garbage, Json(JObj(<<>>)),
    Json(JObj([result |-> JObj(<<>>)])),
    Json(JObj([result |-> JObj([events |-> JNum(7)])])),
    EventsFrame("shield.commitment" :> JArr(<<JStr(<<"a">>)>>)
                @@ "shield.leaf_index" :> JArr(<<JStr(<<"4">>)>>)),
    EventsFrame("agent_register.address" :> JArr(<<JStr(<<"x">>)>>)) }

SockMessage(s) ==
  /\ socks[s] = "OPEN"
  /\ \E f \in WireFrames :
       LET r == onmessage(f)
       IN /\ Commit([Self EXCEPT !.threw = r.threw], "message", s)
          /\ frame' = f
          /\ calls' = r.calls
  /\ UNCHANGED <<halted, everStarted, identityVars, coordVars, heartbeatVars, toolVars>>

\* the transport of socket s fails: the error event
SockError(s) ==
  /\ socks[s] \in {"CONNECTING", "OPEN", "CLOSING"}
  /\ Commit(onerror([Self EXCEPT !.socks[s] = "FAILED"]), "error", s)
  /\ NoMessage
  /\ UNCHANGED <<halted, everStarted, identityVars, coordVars, heartbeatVars, toolVars>>

\* the close event of socket s: after the server closed it, after close(),
\* or after its error event
SockClose(s) ==
  /\ socks[s] # "FREE"
  /\ Commit(onclose([Self EXCEPT !.socks[s] = "FREE",
                                 !.ws = IF @ = s THEN -1 ELSE @]), "close", s)
  /\ NoMessage
  /\ UNCHANGED <<halted, everStarted, identityVars, coordVars, heartbeatVars, toolVars>>

TimerFire ==
  /\ reconnectTimer # 0
  /\ \E ctorThrows \in BOOLEAN : Commit(ontimer(Self, ctorThrows), "timer", 0)
  /\ NoMessage
  /\ UNCHANGED <<halted, everStarted, identityVars, coordVars, heartbeatVars, toolVars>>

NoOp == [op |-> "none", sock |-> 0, errs |-> 0, tried |-> 0, sent |-> <<>>, threw |-> FALSE]

\* the listener as its constructor leaves it
ListenerInit ==
  /\ stopped = FALSE
  /\ ws = 0
  /\ reconnectTimer = 0
  /\ socks = [s \in SockIds |-> "FREE"]
  /\ clock = 0
  /\ last = NoOp
  /\ halted = FALSE
  /\ everStarted = FALSE
  /\ attemptParity = 0

IdentityIdle ==
  /\ cfg = [mnemonic |-> Undefined, autoRegister |-> Undefined, rpcUrl |-> Undefined]
  /\ ipc = "idle"
  /\ agentCalls = <<>>
  /\ registered = FALSE
  /\ autoRegistered = FALSE
  /\ result = [present |-> FALSE, registered |-> FALSE, autoRegistered |-> FALSE]

\* the module-level state of index.ts before any call
CoordIdle ==
  /\ chainClient = 0
  /\ chainAgent = 0
  /\ eventListener = 0
  /\ agents = <<>>
  /\ listeners = <<>>
  /\ cpc = "idle"
  /\ enabled = Undefined
  /\ creturn = [kind |-> "none"]
  /\ inits = 0
  /\ teardown = [ops |-> <<>>, threw |-> FALSE, during |-> "idle", at |-> 0]

\* no call of checkChainHeartbeat
HeartbeatIdle ==
  /\ hpc = "idle"
  /\ hurl = Undefined
  /\ gets = <<>>
  /\ fetched = [kind |-> "none"]
  /\ body = NoFrame
  /\ heartbeat = [alive |-> FALSE, height |-> Undefined, error |-> [text |-> "none"]]
  /\ server = "answers"

\* no call of a tool
ToolsIdle ==
  /\ tool = "none"
  /\ params = Undefined
  /\ tpc = "idle"
  /\ toolCalls = <<>>
  /\ payload = [type |-> "none"]

Init ==
  /\ ListenerInit /\ frame = NoFrame /\ calls = <<>>
  /\ IdentityIdle /\ CoordIdle /\ HeartbeatIdle /\ ToolsIdle

Next ==
  \/ Start
  \/ Stop
  \/ \E s \in SockIds : SockOpen(s)
  \/ \E s \in SockIds : SockMessage(s)
  \/ \E s \in SockIds : SockError(s)
  \/ \E s \in SockIds : SockClose(s)
  \/ TimerFire

Spec == Init /\ [][Next]_vars

\* The event loop runs a timer that is due, and a socket whose transport
\* failed delivers its close event.
FailedClose(s) == socks[s] = "FAILED" /\ SockClose(s)
Fairness == WF_vars(TimerFire) /\ \A s \in SockIds : WF_vars(FailedClose(s))
SpecLive == Spec /\ Fairness

-----------------------------------------------------------------------------
(* SpecFrames: ws.onmessage applied once to a frame of Frames. *)

Deliver ==
  /\ last.op = "none"
  /\ LET r == onmessage(frame)
     IN /\ calls' = r.calls
        /\ last' = [NoOp EXCEPT !.op = "message", !.threw = r.threw]
  /\ UNCHANGED <<stopped, ws, reconnectTimer, socks, clock, frame, halted,
                 everStarted, attemptParity, identityVars, coordVars, heartbeatVars, toolVars>>

InitFrames ==
  /\ ListenerInit /\ frame \in Frames /\ calls = <<>>
  /\ IdentityIdle /\ CoordIdle /\ HeartbeatIdle /\ ToolsIdle
NextFrames == Deliver
SpecFrames == InitFrames /\ [][NextFrames]_vars

-----------------------------------------------------------------------------
(* SpecIdentity: one call of initializeAgentIdentity(config, log). The     *)
(* call is suspended at each await; the collaborator (ClawChainAgent of    *)
(* @clawchain/sdk) answers each call with any of its outcomes. *)

Absent == [present |-> FALSE, registered |-> FALSE, autoRegistered |-> FALSE]
Populated(r, a) == [present |-> TRUE, registered |-> r, autoRegistered |-> a]

LocalNode == JStr(<<"l", "o", "c", "a", "l">>)
OtherNode == JStr(<<"n", "o", "d", "e">>)

\* a || b
OrElse(a, b) == IF Truthy(a) THEN a ELSE b

Configs ==
  [ mnemonic : {Undefined, JStr(<<>>), JStr(<<"m">>)},
    autoRegister : {Undefined, JBool(TRUE), JBool(FALSE)},
    rpcUrl : {Undefined, JStr(<<>>), OtherNode} ]

\* a call on the collaborator: its operation, its argument, how it ended
Call(op, arg) == [op |-> op, arg |-> arg, out |-> "pending"]
Done(op, arg) == [op |-> op, arg |-> arg, out |-> "ok"]
\* the awaited call, the last one made, ends with out
Settle(cs, out) == [cs EXCEPT ![Len(cs)].out = out]

\* new ClawChainAgent({...}) followed by the call of agent.initialize()
Construct(c) ==
  <<Done("new", OrElse(c.rpcUrl, LocalNode)), Call("initialize", Undefined)>>

\* return { agent, address, registered, autoRegistered }
Return(r, a) ==
  /\ registered' = r
  /\ autoRegistered' = a
  /\ result' = Populated(r, a)
  /\ ipc' = "done"

\* the guard on config.mnemonic left out
IdentityBeginUnguarded ==
  /\ ipc = "entry"
  /\ agentCalls' = Construct(cfg)
  /\ ipc' = "initialize"
  /\ UNCHANGED <<cfg, registered, autoRegistered, result>>
  /\ UNCHANGED <<listenerVars, frameVars, coordVars, heartbeatVars, toolVars>>

\* from the entry to the first await: the mnemonic guard, new ClawChainAgent,
\* the call of agent.initialize()
IdentityBegin ==
  /\ ipc = "entry"
  /\ IF ~Truthy(cfg.mnemonic)
     THEN /\ result' = Absent
          /\ ipc' = "done"
          /\ UNCHANGED agentCalls
     ELSE /\ agentCalls' = Construct(cfg)
          /\ ipc' = "initialize"
          /\ UNCHANGED result
  /\ UNCHANGED <<cfg, registered, autoRegistered>>
  /\ UNCHANGED <<listenerVars, frameVars, coordVars, heartbeatVars, toolVars>>

\* agent.initialize() settles: on a throw, log and return null; otherwise
\* getAddress() and the call of agent.isRegistered()
InitializeSettles ==
  /\ ipc = "initialize"
  /\ \E throws \in BOOLEAN :
       IF throws
       THEN /\ agentCalls' = Settle(agentCalls, "throws")
            /\ result' = Absent
            /\ ipc' = "done"
       ELSE /\ agentCalls' = Settle(agentCalls, "ok")
                             \o <<Done("getAddress", Undefined), Call("isRegistered", Undefined)>>
            /\ ipc' = "isRegistered"
            /\ UNCHANGED result
  /\ UNCHANGED <<cfg, registered, autoRegistered>>
  /\ UNCHANGED <<listenerVars, frameVars, coordVars, heartbeatVars, toolVars>>

\* the branch on `registered` left out: register() whatever isRegistered() said
IsRegisteredSettlesAlwaysRegisters ==
  /\ ipc = "isRegistered"
  /\ \E outcome \in {"true", "false", "throws"} :
       LET r == (outcome = "true")
       IN IF cfg.autoRegister # JBool(FALSE)
          THEN /\ agentCalls' = Append(Settle(agentCalls, outcome), Call("register", Undefined))
               /\ ipc' = "register"
               /\ registered' = r
               /\ UNCHANGED <<autoRegistered, result>>
          ELSE /\ Return(r, FALSE)
               /\ agentCalls' = Settle(agentCalls, outcome)
  /\ UNCHANGED cfg
  /\ UNCHANGED <<listenerVars, frameVars, coordVars, heartbeatVars, toolVars>>

\* isRegistered() awaited outside a try: its throw leaves the function
IsRegisteredSettlesNoCatch ==
  /\ ipc = "isRegistered"
  /\ \E outcome \in {"true", "false", "throws"} :
       LET r == (outcome = "true")
       IN IF outcome = "throws"
          THEN /\ agentCalls' = Settle(agentCalls, outcome)
               /\ ipc' = "threw"
               /\ UNCHANGED <<registered, autoRegistered, result>>
          ELSE IF r
          THEN /\ Return(TRUE, FALSE)
               /\ agentCalls' = Settle(agentCalls, outcome)
          ELSE IF cfg.autoRegister # JBool(FALSE)
               THEN /\ agentCalls' = Append(Settle(agentCalls, outcome), Call("register", Undefined))
                    /\ ipc' = "register"
                    /\ registered' = r
                    /\ UNCHANGED <<autoRegistered, result>>
               ELSE /\ Return(FALSE, FALSE)
                    /\ agentCalls' = Settle(agentCalls, outcome)
  /\ UNCHANGED cfg
  /\ UNCHANGED <<listenerVars, frameVars, coordVars, heartbeatVars, toolVars>>

\* `else if (config.autoRegister)`: an unset autoRegister counts as false
IsRegisteredSettlesOptIn ==
  /\ ipc = "isRegistered"
  /\ \E outcome \in {"true", "false", "throws"} :
       LET r == (outcome = "true")
       IN IF r
          THEN /\ Return(TRUE, FALSE)
               /\ agentCalls' = Settle(agentCalls, outcome)
          ELSE IF Truthy(cfg.autoRegister)
               THEN /\ agentCalls' = Append(Settle(agentCalls, outcome), Call("register", Undefined))
                    /\ ipc' = "register"
                    /\ registered' = r
                    /\ UNCHANGED <<autoRegistered, result>>
               ELSE /\ Return(FALSE, FALSE)
                    /\ agentCalls' = Settle(agentCalls, outcome)
  /\ UNCHANGED cfg
  /\ UNCHANGED <<listenerVars, frameVars, coordVars, heartbeatVars, toolVars>>

\* agent.isRegistered() settles with true, false or a throw; then either the
\* return or the call of agent.register()
IsRegisteredSettles ==
  /\ ipc = "isRegistered"
  /\ \E outcome \in {"true", "false", "throws"} :
       LET r == (outcome = "true")
       IN IF r
          THEN /\ Return(TRUE, FALSE)
               /\ agentCalls' = Settle(agentCalls, outcome)
          ELSE IF cfg.autoRegister # JBool(FALSE)
               THEN /\ agentCalls' = Append(Settle(agentCalls, outcome), Call("register", Undefined))
                    /\ ipc' = "register"
                    /\ registered' = r
                    /\ UNCHANGED <<autoRegistered, result>>
               ELSE /\ Return(FALSE, FALSE)
                    /\ agentCalls' = Settle(agentCalls, outcome)
  /\ UNCHANGED cfg
  /\ UNCHANGED <<listenerVars, frameVars, coordVars, heartbeatVars, toolVars>>

\* register() retried once when it fails
RegisterSettlesRetries ==
  /\ ipc = "register"
  /\ \E outcome \in {"code0", "code5", "throws"} :
       IF outcome = "code0"
       THEN Return(TRUE, TRUE) /\ agentCalls' = Settle(agentCalls, outcome)
       ELSE IF Len(SelectSeq(agentCalls, LAMBDA c : c.op = "register")) < 2
       THEN /\ agentCalls' = Append(Settle(agentCalls, outcome), Call("register", Undefined))
            /\ UNCHANGED <<ipc, registered, autoRegistered, result>>
       ELSE Return(registered, autoRegistered) /\ agentCalls' = Settle(agentCalls, outcome)
  /\ UNCHANGED cfg
  /\ UNCHANGED <<listenerVars, frameVars, coordVars, heartbeatVars, toolVars>>

\* register() whose result code is not looked at
RegisterSettlesIgnoresCode ==
  /\ ipc = "register"
  /\ \E outcome \in {"code0", "code5", "throws"} :
       IF outcome \in {"code0", "code5"}
       THEN Return(TRUE, TRUE) /\ agentCalls' = Settle(agentCalls, outcome)
       ELSE Return(registered, autoRegistered) /\ agentCalls' = Settle(agentCalls, outcome)
  /\ UNCHANGED cfg
  /\ UNCHANGED <<listenerVars, frameVars, coordVars, heartbeatVars, toolVars>>

\* agent.register() settles with a result code or a throw
RegisterSettles ==
  /\ ipc = "register"
  /\ \E outcome \in {"code0", "code5", "throws"} :
       /\ agentCalls' = Settle(agentCalls, outcome)
       /\ IF outcome = "code0" THEN Return(TRUE, TRUE)
          ELSE Return(registered, autoRegistered)
  /\ UNCHANGED cfg
  /\ UNCHANGED <<listenerVars, frameVars, coordVars, heartbeatVars, toolVars>>

InitIdentity ==
  /\ ListenerInit /\ frame = NoFrame /\ calls = <<>>
  /\ cfg \in Configs
  /\ ipc = "entry"
  /\ agentCalls = <<>>
  /\ registered = FALSE
  /\ autoRegistered = FALSE
  /\ result = Absent
  /\ CoordIdle
  /\ HeartbeatIdle
  /\ ToolsIdle

NextIdentity ==
  \/ IdentityBegin
  \/ InitializeSettles
  \/ IsRegisteredSettles
  \/ RegisterSettles

SpecIdentity == InitIdentity /\ [][NextIdentity]_vars

-----------------------------------------------------------------------------
(* SpecCoordinator: the module-level state of the extension's index.ts     *)
(* under calls of initializeBlockchain and shutdownBlockchain.             *)
(* initializeBlockchain is suspended at its one await, on                  *)
(* initializeAgentIdentity, whose steps are those of SpecIdentity;         *)
(* shutdownBlockchain is synchronous and may run at any point in between.  *)
(* The caller starts a call of initializeBlockchain only when the previous *)
(* one has returned. agent.shutdown() returns a promise, which the code    *)
(* discards with `void`: whether it resolves or rejects changes nothing    *)
(* here. The listeners are started and stopped with the listener's own     *)
(* start and stop; their sockets deliver no event in this specification.   *)

\* calls of initializeBlockchain in one behaviour
MaxInits == 2

\* new ChainEventListener(rpcUrl, handlers)
NewListener(rpcUrl) ==
  [rpcUrl |-> rpcUrl, stopped |-> FALSE, ws |-> 0, reconnectTimer |-> 0,
   socks |-> [s \in SockIds |-> "FREE"]]

\* a listener object entering one of its methods, and leaving it
Run(l) == [stopped |-> l.stopped, ws |-> l.ws, reconnectTimer |-> l.reconnectTimer,
           socks |-> l.socks, errs |-> 0, tried |-> 0, sent |-> <<>>, threw |-> FALSE]
After(l, L) == [l EXCEPT !.stopped = L.stopped, !.ws = L.ws,
                         !.reconnectTimer = L.reconnectTimer, !.socks = L.socks]

\* the module-level state, with what one call of shutdownBlockchain did
CoordSelf ==
  [chainClient |-> chainClient, chainAgent |-> chainAgent,
   eventListener |-> eventListener, agents |-> agents, listeners |-> listeners,
   ops |-> <<>>, threw |-> FALSE]

\* if (eventListener) { eventListener.stop(); eventListener = null; }
ShutdownListener(S) ==
  IF S.eventListener = 0 THEN S
  ELSE LET L == stop(Run(S.listeners[S.eventListener]))
           S1 == [S EXCEPT !.listeners[S.eventListener] = After(@, L),
                           !.ops = Append(@, "listener.stop")]
       IN IF L.threw THEN [S1 EXCEPT !.threw = TRUE]
          ELSE [S1 EXCEPT !.eventListener = 0]

\* if (chainAgent) { void chainAgent.shutdown(); chainAgent = null; chainClient = null; }
ShutdownAgent(S) ==
  IF S.threw \/ S.chainAgent = 0 THEN S
  ELSE [S EXCEPT !.agents[S.chainAgent].shutdowns = @ + 1,
                 !.ops = Append(@, "agent.shutdown"),
                 !.chainAgent = 0,
                 !.chainClient = 0]

\* shutdownBlockchain that leaves chainAgent set
shutdownBlockchainKeepsAgent(S) ==
  LET S1 == ShutdownListener(S)
  IN IF S1.threw \/ S1.chainAgent = 0 THEN S1
     ELSE [S1 EXCEPT !.agents[S1.chainAgent].shutdowns = @ + 1,
                     !.ops = Append(@, "agent.shutdown"),
                     !.chainClient = 0]

shutdownBlockchain(S) == ShutdownAgent(ShutdownListener(S))

ShutdownBlockchain ==
  /\ LET S == shutdownBlockchain(CoordSelf)
     IN /\ chainClient' = S.chainClient
        /\ chainAgent' = S.chainAgent
        /\ eventListener' = S.eventListener
        /\ agents' = S.agents
        /\ listeners' = S.listeners
        /\ teardown' = [ops |-> S.ops, threw |-> S.threw, during |-> cpc, at |-> inits]
  /\ UNCHANGED <<cpc, enabled, creturn, inits>>
  /\ UNCHANGED <<listenerVars, frameVars, identityVars, heartbeatVars, toolVars>>

\* initializeBlockchain that starts the listener before bootstrap
InitializeBlockchainBeginStartsListener ==
  /\ cpc = "idle"
  /\ inits < MaxInits
  /\ inits' = inits + 1
  /\ \E e \in {Undefined, JBool(TRUE), JBool(FALSE)}, c \in Configs :
       /\ enabled' = e
       /\ IF ~Truthy(e)
          THEN /\ creturn' = [kind |-> "empty"]
               /\ UNCHANGED <<cpc, identityVars, listeners, eventListener>>
          ELSE /\ cpc' = "awaiting"
               /\ creturn' = [kind |-> "pending"]
               /\ cfg' = c
               /\ ipc' = "entry"
               /\ agentCalls' = <<>>
               /\ registered' = FALSE
               /\ autoRegistered' = FALSE
               /\ result' = Absent
               /\ \E ctorThrows \in BOOLEAN :
                    LET l == NewListener(OrElse(c.rpcUrl, LocalNode))
                    IN listeners' = Append(listeners, After(l, start(Run(l), ctorThrows)))
               /\ eventListener' = Len(listeners) + 1
  /\ UNCHANGED <<chainClient, chainAgent, agents, teardown>>
  /\ UNCHANGED <<listenerVars, frameVars, heartbeatVars, toolVars>>

\* initializeBlockchain(config) from its entry to the await: the guard on
\* config.enabled, and the call of initializeAgentIdentity(config, log)
InitializeBlockchainBegin ==
  /\ cpc = "idle"
  /\ inits < MaxInits
  /\ inits' = inits + 1
  /\ \E e \in {Undefined, JBool(TRUE), JBool(FALSE)}, c \in Configs :
       /\ enabled' = e
       /\ IF ~Truthy(e)
          THEN /\ creturn' = [kind |-> "empty"]
               /\ UNCHANGED <<cpc, identityVars>>
          ELSE /\ cpc' = "awaiting"
               /\ creturn' = [kind |-> "pending"]
               /\ cfg' = c
               /\ ipc' = "entry"
               /\ agentCalls' = <<>>
               /\ registered' = FALSE
               /\ autoRegistered' = FALSE
               /\ result' = Absent
  /\ UNCHANGED <<chainClient, chainAgent, eventListener, agents, listeners, teardown>>
  /\ UNCHANGED <<listenerVars, frameVars, heartbeatVars, toolVars>>

\* the assignments and the listener of lines 74-93, for an identity whose
\* agent has (hasClient) or has not a `client` property
Adopt(hasClient, ctorThrows) ==
  LET a == Len(agents) + 1
      l == NewListener(OrElse(cfg.rpcUrl, LocalNode))
      L == start(Run(l), ctorThrows)
  IN /\ agents' = Append(agents, [hasClient |-> hasClient, shutdowns |-> 0])
     /\ chainAgent' = a
     /\ chainClient' = IF hasClient THEN a ELSE 0
     /\ listeners' = Append(listeners, After(l, L))
     /\ eventListener' = Len(listeners) + 1
     /\ creturn' = IF L.threw THEN [kind |-> "threw"]
                   ELSE [kind |-> "identity", registered |-> result.registered]

\* initializeBlockchain without `if (!identity) return {}`: the handles are
\* assigned from identity?.agent and the listener is started in any case
InitializeBlockchainResumeUnchecked ==
  /\ cpc = "awaiting"
  /\ ipc = "done"
  /\ cpc' = "idle"
  /\ \E hasClient \in BOOLEAN, ctorThrows \in BOOLEAN :
       IF ~result.present
       THEN LET l == NewListener(OrElse(cfg.rpcUrl, LocalNode))
            IN /\ listeners' = Append(listeners, After(l, start(Run(l), ctorThrows)))
               /\ eventListener' = Len(listeners) + 1
               /\ chainAgent' = 0
               /\ chainClient' = 0
               /\ creturn' = [kind |-> "empty"]
               /\ UNCHANGED agents
       ELSE Adopt(hasClient, ctorThrows)
  /\ UNCHANGED <<enabled, inits, teardown>>
  /\ UNCHANGED <<listenerVars, frameVars, identityVars, heartbeatVars, toolVars>>

\* initializeBlockchain after the await: return {} for a null identity,
\* otherwise set the handles, create and start the listener, return
InitializeBlockchainResume ==
  /\ cpc = "awaiting"
  /\ ipc = "done"
  /\ cpc' = "idle"
  /\ IF ~result.present
     THEN /\ creturn' = [kind |-> "empty"]
          /\ UNCHANGED <<chainClient, chainAgent, eventListener, agents, listeners>>
     ELSE \E hasClient \in BOOLEAN, ctorThrows \in BOOLEAN : Adopt(hasClient, ctorThrows)
  /\ UNCHANGED <<enabled, inits, teardown>>
  /\ UNCHANGED <<listenerVars, frameVars, identityVars, heartbeatVars, toolVars>>

InitCoordinator ==
  /\ ListenerInit /\ frame = NoFrame /\ calls = <<>>
  /\ IdentityIdle /\ CoordIdle /\ HeartbeatIdle /\ ToolsIdle

NextCoordinator ==
  \/ InitializeBlockchainBegin
  \/ IdentityBegin
  \/ InitializeSettles
  \/ IsRegisteredSettles
  \/ RegisterSettles
  \/ InitializeBlockchainResume
  \/ ShutdownBlockchain

SpecCoordinator == InitCoordinator /\ [][NextCoordinator]_vars

-----------------------------------------------------------------------------
(* SpecHeartbeat: one call of checkChainHeartbeat(rpcUrl). The call is     *)
(* suspended at `await fetch(...)` and at `await response.json()`. fetch   *)
(* is called with the URL alone, with no signal and no timeout: its        *)
(* promise settles when the node answers or the transport fails, and the   *)
(* code has no step of its own that ends the wait. A node that accepted    *)
(* the request and stays silent is server = "silent".                      *)

NoError == [text |-> "none"]
\* `HTTP ${response.status}`
HttpError(status) == [text |-> "HTTP", status |-> status]
\* String(err)
ExceptionText(err) == [text |-> "String(err)", err |-> err]

\* response.ok
Ok(status) == status \in 200..299

\* what makes fetch reject, and the status codes of the responses
TransportErrors == {"ENOTFOUND", "ECONNREFUSED", "ECONNRESET"}
Statuses == {200, 204, 299, 300, 404, 500}

\* the body of a /status response whose latest_block_height is h
StatusBody(h) ==
  Json(JObj([result |-> JObj([sync_info |-> JObj([latest_block_height |-> h])])]))

HeightTexts ==
  { <<>>, <<"0">>, <<"7">>, <<"4", "2">>, <<"-", "1">>, <<"7", "a">>, <<"a">>, <<" ", "7">> }

\* bodies: text that is not JSON, JSON without the height, JSON with it
StatusBodies ==
  { Garbage, Json(JNull), Json(JNum(7)), Json(JObj(<<>>)),
    Json(JObj([result |-> JNull])),
    Json(JObj([result |-> JObj(<<>>)])),
    Json(JObj([result |-> JObj([sync_info |-> JObj(<<>>)])])) }
  \cup { StatusBody(JStr(t)) : t \in HeightTexts }
  \cup { StatusBody(JNull), StatusBody(JNum(0)), StatusBody(JNum(7)) }

\* data?.result?.sync_info?.latest_block_height
LatestBlockHeight(data) == Get(Get(Get(data, "result"), "sync_info"), "latest_block_height")

\* height ? parseInt(height, 10) : undefined
HeightOf(data) ==
  LET height == LatestBlockHeight(data)
  IN IF Truthy(height) THEN ParseIntOf(height) ELSE Undefined

\* return of checkChainHeartbeat
HeartbeatReturn(r) == heartbeat' = r /\ hpc' = "done"

\* from the entry to `await fetch(`${rpcUrl}/status`)`
HeartbeatBegin ==
  /\ hpc = "entry"
  /\ gets' = Append(gets, hurl.s \o <<"/status">>)
  /\ hpc' = "fetch"
  /\ UNCHANGED <<hurl, fetched, body, heartbeat, server>>
  /\ UNCHANGED <<listenerVars, frameVars, identityVars, coordVars, toolVars>>

\* the fetch awaited outside the try: a rejection leaves the function
FetchSettlesNoCatch ==
  /\ hpc = "fetch"
  /\ server = "answers"
  /\ \/ \E err \in TransportErrors :
          /\ fetched' = [kind |-> "rejected", err |-> err]
          /\ hpc' = "threw"
          /\ UNCHANGED heartbeat
     \/ \E status \in Statuses :
          /\ fetched' = [kind |-> "response", status |-> status]
          /\ IF ~Ok(status)
             THEN HeartbeatReturn([alive |-> FALSE, height |-> Undefined,
                                   error |-> HttpError(status)])
             ELSE hpc' = "json" /\ UNCHANGED heartbeat
  /\ UNCHANGED <<hurl, gets, body, server>>
  /\ UNCHANGED <<listenerVars, frameVars, identityVars, coordVars, toolVars>>

\* the fetch promise settles: rejected (caught at line 167), or fulfilled
\* with a response, whose `ok` decides between line 157 and response.json()
FetchSettles ==
  /\ hpc = "fetch"
  /\ server = "answers"
  /\ \/ \E err \in TransportErrors :
          /\ fetched' = [kind |-> "rejected", err |-> err]
          /\ HeartbeatReturn([alive |-> FALSE, height |-> Undefined,
                              error |-> ExceptionText(err)])
     \/ \E status \in Statuses :
          /\ fetched' = [kind |-> "response", status |-> status]
          /\ IF ~Ok(status)
             THEN HeartbeatReturn([alive |-> FALSE, height |-> Undefined,
                                   error |-> HttpError(status)])
             ELSE hpc' = "json" /\ UNCHANGED heartbeat
  /\ UNCHANGED <<hurl, gets, body, server>>
  /\ UNCHANGED <<listenerVars, frameVars, identityVars, coordVars, toolVars>>

\* response.json() settles: rejected for a body that is not JSON (caught at
\* line 167), or fulfilled with the value, from which the height is read
JsonSettles ==
  /\ hpc = "json"
  /\ \E b \in StatusBodies :
       /\ body' = b
       /\ IF ~JSONParse(b).ok
          THEN HeartbeatReturn([alive |-> FALSE, height |-> Undefined,
                                error |-> ExceptionText("SyntaxError")])
          ELSE HeartbeatReturn([alive |-> TRUE, height |-> HeightOf(JSONParse(b).value),
                                error |-> NoError])
  /\ UNCHANGED <<hurl, gets, fetched, server>>
  /\ UNCHANGED <<listenerVars, frameVars, identityVars, coordVars, toolVars>>

InitHeartbeat ==
  /\ ListenerInit /\ frame = NoFrame /\ calls = <<>>
  /\ IdentityIdle /\ CoordIdle /\ ToolsIdle
  /\ hpc = "entry"
  /\ hurl \in {LocalNode, OtherNode}
  /\ gets = <<>>
  /\ fetched = [kind |-> "none"]
  /\ body = NoFrame
  /\ heartbeat = [alive |-> FALSE, height |-> Undefined, error |-> NoError]
  /\ server \in {"answers", "silent"}

NextHeartbeat ==
  \/ HeartbeatBegin
  \/ FetchSettles
  \/ JsonSettles

SpecHeartbeat == InitHeartbeat /\ [][NextHeartbeat]_vars

-----------------------------------------------------------------------------
(* SpecTools: one call of execute(params) of one of the nine tools of      *)
(* tools.ts, in each state of the handles the deps getters read: both      *)
(* null, or set by a completed initializeBlockchain whose agent has or has *)
(* not a `client`. Every handle is read before the first await of the      *)
(* call. The collaborators answer each awaited call with any of its        *)
(* outcomes; syncThrows says whether the synchronous calls on the agent    *)
(* (getAddress, getShieldedBalance, getCommitments) throw in the stretch   *)
(* of code being run. What the collaborators throw are Error objects.      *)

jsonResult(data) == [type |-> "json", data |-> data]
errorResult(message) == [type |-> "json", data |-> [error |-> message]]

RECURSIVE TrimEnd(_)
TrimEnd(s) == IF s # <<>> /\ s[Len(s)] = " " THEN TrimEnd(SubSeq(s, 1, Len(s) - 1)) ELSE s
\* String.prototype.trim, the white space being " "
Trim(s) == TrimEnd(SkipSpace(s))

\* Number(s) of a trimmed, non-empty string made of digits, signs and letters
ToNumber(s) ==
  LET u == IF Head(s) \in {"-", "+"} THEN Tail(s) ELSE s
  IN IF u # <<>> /\ \A i \in DOMAIN u : u[i] \in Digits
     THEN Num(IF Head(s) = "-" THEN 0 - DigitRun(u, 0, FALSE).v ELSE DigitRun(u, 0, FALSE).v)
     ELSE NaN

\* readStringParam(params, name, required): the string, or that it threw
readStringParam(p, name, required) ==
  LET value == Get(p, name)
  IN IF value.t = "str" /\ Trim(value.s) # <<>>
     THEN [threw |-> FALSE, v |-> Trim(value.s)]
     ELSE [threw |-> required, v |-> <<>>]

\* readNumberParam(params, name)
readNumberParam(p, name) ==
  LET value == Get(p, name)
  IN IF value.t = "num" THEN value
     ELSE IF value.t = "str" /\ Trim(value.s) # <<>>
     THEN (LET parsed == ToNumber(Trim(value.s))
           IN IF ~parsed.nan THEN JNum(parsed.v) ELSE Undefined)
     ELSE Undefined

\* !amount || amount <= 0
NotPositive(amount) == ~Truthy(amount) \/ amount.n <= 0

\* what agent.getAddress() returns
AgentAddress == <<"c", "l", "a", "w", "1">>
Uclaw == <<"u", "c", "l", "a", "w">>
\* a || b on strings
OrText(a, b) == IF a # <<>> THEN a ELSE b

\* how a stretch of execute ends: with a return, at an await, or with a throw
Returned(r) == [pc |-> "done", payload |-> r, call |-> Call("none", Undefined)]
Awaiting(op, arg) == [pc |-> "await", payload |-> [type |-> "none"], call |-> Call(op, arg)]
Thrown(err) == [pc |-> "threw", payload |-> [type |-> "none"], call |-> Call("none", Undefined)]

AgentMissing == errorResult(<<"Blockchain agent not initialized.">>)
ClientMissing == errorResult(<<"Blockchain client not initialized.">>)
AmountInvalid == errorResult(<<"Amount must be a positive number.">>)

\* clawchain_status, to its await
statusExecute(client) ==
  IF ~client
  THEN Returned(errorResult(<<"Blockchain client not initialized. Is blockchain.enabled set to true?">>))
  ELSE Awaiting("getStatus", Undefined)

\* clawchain_balance with the client taken before the try
balanceExecuteClientFirst(agent, client, p, syncThrows) ==
  LET given == readStringParam(p, "address", FALSE).v
      denom == OrText(readStringParam(p, "denom", FALSE).v, Uclaw)
  IN IF ~agent THEN Returned(AgentMissing)
     ELSE IF ~client THEN Thrown("TypeError")
     ELSE IF given = <<>> /\ syncThrows
     THEN Returned(errorResult(<<"Failed to get balance: ", "Error">>))
     ELSE Awaiting("getBalance", [address |-> OrText(given, AgentAddress), denom |-> denom])

\* clawchain_balance, to its await; deps.getClient()! is null when the
\* agent has no client, and client.getBalance then throws a TypeError
balanceExecute(agent, client, p, syncThrows) ==
  LET given == readStringParam(p, "address", FALSE).v
      denom == OrText(readStringParam(p, "denom", FALSE).v, Uclaw)
  IN IF ~agent THEN Returned(AgentMissing)
     ELSE IF given = <<>> /\ syncThrows
     THEN Returned(errorResult(<<"Failed to get balance: ", "Error">>))
     ELSE IF ~client
     THEN Returned(errorResult(<<"Failed to get balance: ", "TypeError">>))
     ELSE Awaiting("getBalance", [address |-> OrText(given, AgentAddress), denom |-> denom])

\* clawchain_shielded_balance: no await
shieldedBalanceExecute(agent, syncThrows) ==
  IF ~agent THEN Returned(AgentMissing)
  ELSE IF syncThrows
  THEN Returned(errorResult(<<"Failed to get shielded balance: ", "Error">>))
  ELSE Returned(jsonResult([shieldedBalance |-> "balance", unit |-> Uclaw,
                            commitmentCount |-> "count"]))

\* clawchain_shield, to its await
shieldExecute(agent, p) ==
  LET amount == readNumberParam(p, "amount")
      denom == OrText(readStringParam(p, "denom", FALSE).v, Uclaw)
  IN IF ~agent THEN Returned(AgentMissing)
     ELSE IF NotPositive(amount) THEN Returned(AmountInvalid)
     ELSE Awaiting("shieldTokens", [amount |-> amount, denom |-> denom])

\* clawchain_unshield, to its await
unshieldExecute(agent, p) ==
  LET amount == readNumberParam(p, "amount")
      recipient == readStringParam(p, "recipient", FALSE).v
  IN IF ~agent THEN Returned(AgentMissing)
     ELSE IF NotPositive(amount) THEN Returned(AmountInvalid)
     ELSE Awaiting("unshieldTokens", [amount |-> amount, recipient |-> recipient])

\* clawchain_private_transfer: no await, and an error payload in every case
privateTransferExecute(agent, p) ==
  LET recipientAddress == readStringParam(p, "recipientAddress", TRUE)
      amount == readNumberParam(p, "amount")
  IN IF ~agent THEN Returned(AgentMissing)
     ELSE IF recipientAddress.threw
     THEN Returned(errorResult(<<"Private transfer failed: ",
                                 "Error: Missing required parameter: recipientAddress">>))
     ELSE IF NotPositive(amount) THEN Returned(AmountInvalid)
     ELSE Returned(errorResult(<<"Private transfer of ", amount, " uclaw to ",
                                 recipientAddress.v, " requires the recipient's agent instance">>))

\* clawchain_register, to its first await
registerExecute(agent) ==
  IF ~agent THEN Returned(AgentMissing) ELSE Awaiting("isRegistered", Undefined)

\* clawchain_merkle_root, to its await
merkleRootExecute(client) ==
  IF ~client THEN Returned(ClientMissing) ELSE Awaiting("getMerkleRoot", Undefined)

\* clawchain_agent_info, to its await
agentInfoExecute(agent, client, p, syncThrows) ==
  LET given == readStringParam(p, "address", FALSE).v
      address == OrText(given, IF agent THEN AgentAddress ELSE <<>>)
  IN IF ~client THEN Returned(ClientMissing)
     ELSE IF given = <<>> /\ agent /\ syncThrows
     THEN Returned(errorResult(<<"Failed to get agent info: ", "Error">>))
     ELSE IF address = <<>>
     THEN Returned(errorResult(<<"No address provided and agent not initialized.">>))
     ELSE Awaiting("getAgent", [address |-> address])

Tools ==
  { "clawchain_status", "clawchain_balance", "clawchain_shielded_balance",
    "clawchain_shield", "clawchain_unshield", "clawchain_private_transfer",
    "clawchain_register", "clawchain_merkle_root", "clawchain_agent_info" }

\* execute(params) of tool t from its entry to its first await or return
Execute(t, agent, client, p, syncThrows) ==
  CASE t = "clawchain_status" -> statusExecute(client)
    [] t = "clawchain_balance" -> balanceExecute(agent, client, p, syncThrows)
    [] t = "clawchain_shielded_balance" -> shieldedBalanceExecute(agent, syncThrows)
    [] t = "clawchain_shield" -> shieldExecute(agent, p)
    [] t = "clawchain_unshield" -> unshieldExecute(agent, p)
    [] t = "clawchain_private_transfer" -> privateTransferExecute(agent, p)
    [] t = "clawchain_register" -> registerExecute(agent)
    [] t = "clawchain_merkle_root" -> merkleRootExecute(client)
    [] t = "clawchain_agent_info" -> agentInfoExecute(agent, client, p, syncThrows)

\* what the awaited call op can end with
Outcomes(op) ==
  CASE op \in {"shieldTokens", "unshieldTokens", "register"} -> {"code0", "code5", "throws"}
    [] op = "isRegistered" -> {"true", "false", "throws"}
    [] OTHER -> {"ok", "throws"}

\* `<prefix>: ${String(err)}` of the catch of tool t
Failure(t) ==
  CASE t = "clawchain_status" -> errorResult(<<"Failed to get chain status: ", "Error">>)
    [] t = "clawchain_balance" -> errorResult(<<"Failed to get balance: ", "Error">>)
    [] t = "clawchain_shield" -> errorResult(<<"Shield failed: ", "Error">>)
    [] t = "clawchain_unshield" -> errorResult(<<"Unshield failed: ", "Error">>)
    [] t = "clawchain_register" -> errorResult(<<"Registration failed: ", "Error">>)
    [] t = "clawchain_merkle_root" -> errorResult(<<"Failed to get Merkle root: ", "Error">>)
    [] t = "clawchain_agent_info" -> errorResult(<<"Failed to get agent info: ", "Error">>)

\* execute of tool t from the await of call c, which ended with c.out, to
\* the next await or the return
Continue(t, c, syncThrows) ==
  IF c.out = "throws" THEN Returned(Failure(t))
  ELSE CASE c.op = "getStatus" -> Returned(jsonResult([status |-> "status"]))
         [] c.op = "getBalance" ->
              Returned(jsonResult([address |-> c.arg.address, denom |-> c.arg.denom,
                                   balance |-> "balance"]))
         [] c.op = "shieldTokens" ->
              IF syncThrows THEN Returned(Failure(t))
              ELSE Returned(jsonResult([success |-> (c.out = "code0"), txHash |-> "hash",
                                        amount |-> c.arg.amount, denom |-> c.arg.denom,
                                        shieldedBalance |-> "balance"]))
         [] c.op = "unshieldTokens" ->
              IF c.arg.recipient = <<>> /\ syncThrows THEN Returned(Failure(t))
              ELSE Returned(jsonResult([success |-> (c.out = "code0"), txHash |-> "hash",
                                        amount |-> c.arg.amount,
                                        recipient |-> OrText(c.arg.recipient, AgentAddress)]))
         [] c.op = "isRegistered" ->
              IF c.out = "true"
              THEN (IF syncThrows THEN Returned(Failure(t))
                    ELSE Returned(jsonResult([success |-> TRUE, alreadyRegistered |-> TRUE,
                                              address |-> AgentAddress,
                                              message |-> "Agent is already registered on-chain."])))
              ELSE Awaiting("register", Undefined)
         [] c.op = "register" ->
              IF syncThrows THEN Returned(Failure(t))
              ELSE Returned(jsonResult([success |-> (c.out = "code0"), txHash |-> "hash",
                                        address |-> AgentAddress]))
         [] c.op = "getMerkleRoot" -> Returned(jsonResult([merkleRoot |-> "root"]))
         [] c.op = "getAgent" -> Returned(jsonResult([info |-> "info"]))

\* the variables after a stretch of execute that ended as r
Proceed(r, cs) ==
  /\ tpc' = r.pc
  /\ payload' = r.payload
  /\ toolCalls' = IF r.pc = "await" THEN Append(cs, r.call) ELSE cs

\* execute(params) is called and runs to its first await or return
ToolBegin ==
  /\ tpc = "entry"
  /\ \E syncThrows \in BOOLEAN :
       Proceed(Execute(tool, chainAgent # 0, chainClient # 0, params, syncThrows), toolCalls)
  /\ UNCHANGED <<tool, params>>
  /\ UNCHANGED <<listenerVars, frameVars, identityVars, coordVars, heartbeatVars>>

\* the awaited call settles and execute runs to its next await or return
ToolSettles ==
  /\ tpc = "await"
  /\ \E out \in Outcomes(toolCalls[Len(toolCalls)].op), syncThrows \in BOOLEAN :
       LET cs == Settle(toolCalls, out)
       IN Proceed(Continue(tool, cs[Len(cs)], syncThrows), cs)
  /\ UNCHANGED <<tool, params>>
  /\ UNCHANGED <<listenerVars, frameVars, identityVars, coordVars, heartbeatVars>>

\* values of a string parameter and of a number parameter
StringParams ==
  { Undefined, JNull, JNum(7), JStr(<<>>), JStr(<<" ">>), JStr(<<"a">>), JStr(<<" ", "a", " ">>) }
NumberParams ==
  { Undefined, JNull, JBool(TRUE), JNum(0), JNum(-1), JNum(5),
    JStr(<<>>), JStr(<<" ">>), JStr(<<"a">>), JStr(<<"5", "a">>),
    JStr(<<"0">>), JStr(<<"5">>), JStr(<<" ", "5", " ">>), JStr(<<"-", "5">>) }

\* params: not an object, or an object with the tools' parameters; no tool
\* reads two of address, recipient and recipientAddress
Params ==
  { Undefined, JNull, JNum(7), JStr(<<"a">>), JObj(<<>>) }
  \cup { JObj([address |-> a, recipient |-> a, recipientAddress |-> a,
               denom |-> d, amount |-> n]) :
           a \in StringParams, d \in {Undefined, JStr(<<"d">>)}, n \in NumberParams }

\* the state a completed initializeBlockchain leaves, for an agent that has
\* (hasClient) or has not a `client` property
Started(hasClient) ==
  /\ cfg = [mnemonic |-> JStr(<<"m">>), autoRegister |-> Undefined, rpcUrl |-> Undefined]
  /\ ipc = "done"
  /\ agentCalls = << Done("new", LocalNode), Done("initialize", Undefined),
                     Done("getAddress", Undefined),
                     [op |-> "isRegistered", arg |-> Undefined, out |-> "true"] >>
  /\ registered = TRUE
  /\ autoRegistered = FALSE
  /\ result = Populated(TRUE, FALSE)
  /\ chainAgent = 1
  /\ chainClient = (IF hasClient THEN 1 ELSE 0)
  /\ eventListener = 1
  /\ agents = <<[hasClient |-> hasClient, shutdowns |-> 0]>>
  /\ listeners = <<After(NewListener(LocalNode), start(Run(NewListener(LocalNode)), FALSE))>>
  /\ cpc = "idle"
  /\ enabled = JBool(TRUE)
  /\ creturn = [kind |-> "identity", registered |-> TRUE]
  /\ inits = 1
  /\ teardown = [ops |-> <<>>, threw |-> FALSE, during |-> "idle", at |-> 0]

InitTools ==
  /\ ListenerInit /\ frame = NoFrame /\ calls = <<>>
  /\ HeartbeatIdle
  /\ \/ IdentityIdle /\ CoordIdle
     \/ Started(FALSE)
     \/ Started(TRUE)
  /\ tool \in Tools
  /\ params \in Params
  /\ tpc = "entry"
  /\ toolCalls = <<>>
  /\ payload = [type |-> "none"]

NextTools ==
  \/ ToolBegin
  \/ ToolSettles

SpecTools == InitTools /\ [][NextTools]_vars

-----------------------------------------------------------------------------
(* The claims. *)

\* C1: for every sequence of events on a listener, once stop() has returned
\* and until start() is called again, no new connection is opened (no
\* new WebSocket is attempted, no socket comes into being), no reconnect is
\* scheduled and no reconnect timer is pending.
C1_StoppedStaysQuiet ==
  [][halted' =>
       /\ reconnectTimer' = 0
       /\ halted => /\ last'.tried = 0
                    /\ \A s \in SockIds : socks[s] = "FREE" => socks'[s] = "FREE"]_vars

\* a close event delivered after stop() returned
C1_Witness == halted /\ last.op = "close"

\* a connection loss the listener has not answered with a new attempt yet
LossPending == reconnectTimer # 0 \/ \E s \in SockIds : socks[s] = "FAILED"

\* C2: while stop() has not been called, every connection loss (a close
\* event, a transport error, new WebSocket throwing) arms the reconnect timer
\* with the fixed delay of 5000 ms at the latest when the close event comes,
\* and is eventually followed by a new connection attempt, however many
\* attempts came before; nothing is thrown out of a handler.
C2_LossLeadsToAttempt ==
  /\ \A b \in {0, 1} :
       (~halted /\ LossPending /\ attemptParity = b) ~> (halted \/ attemptParity # b)
  /\ [](reconnectTimer \in {0, 5000} /\ ~last.threw)
  /\ [][(~halted' /\ last'.op = "close") => reconnectTimer' = 5000]_vars
  /\ [][(~halted' /\ last'.op \in {"start", "timer"} /\ last'.errs = 1)
          => reconnectTimer' = 5000]_vars

\* the timer fired, the attempt it made failed to open, and the timer is armed again
C2_Witness ==
  ~halted /\ last.op = "timer" /\ last.tried = 1 /\ last.errs = 1 /\ reconnectTimer = 5000

\* C3: every open of a connection sends exactly two subscribe requests on
\* that connection, the shield-commitment filter and the agent-registration filter.
C3_TwoSubscribesPerOpen ==
  last.op = "open" =>
    /\ Len(last.sent) = 2
    /\ last.sent[1].sock = last.sock /\ last.sent[1].query = ShieldQuery
    /\ last.sent[2].sock = last.sock /\ last.sent[2].query = AgentQuery

\* result.events of a frame that is JSON
EventsOf(f) == Get(Get(f.value, "result"), "events")
\* text that is not JSON, or JSON without a result.events mapping
Malformed(f) == ~f.json \/ EventsOf(f).t # "obj"
WellFormed(f) == f.json /\ EventsOf(f).t = "obj"

\* C4: a malformed inbound frame invokes no onNewCommitment and no
\* onAgentRegistered handler (and no onError), raises nothing, schedules no
\* reconnect and leaves the connection open: a Connected listener stays Connected.
C4_MalformedDropped ==
  [][(last'.op = "message" /\ Malformed(frame')) =>
       /\ calls' = <<>>
       /\ ~last'.threw
       /\ last'.errs = 0
       /\ UNCHANGED <<stopped, ws, reconnectTimer, socks>>
       /\ socks'[last'.sock] = "OPEN"
       /\ (ConnState = "Connected" => ConnState' = "Connected")]_vars

\* a malformed frame arrived on the connection of a Connected listener
C4_Witness ==
  last.op = "message" /\ Malformed(frame) /\ ConnState = "Connected" /\ last.sock = ws

\* the entries of an array of result.events, none when the key is missing
EntriesOf(f, key) ==
  LET v == Get(EventsOf(f), key) IN IF v.t = "arr" THEN v.a ELSE <<>>

\* a decimal integer: an optional minus sign, then digits only
IsDecimal(s) ==
  LET d == IF s # <<>> /\ Head(s) = "-" THEN Tail(s) ELSE s
  IN d # <<>> /\ \A i \in DOMAIN d : d[i] \in Digits

RECURSIVE Magnitude(_)
Magnitude(d) ==
  IF d = <<>> THEN 0
  ELSE 10 * Magnitude(SubSeq(d, 1, Len(d) - 1)) + DigitVal(d[Len(d)])

\* the integer a decimal integer denotes
IntValue(s) == IF Head(s) = "-" THEN 0 - Magnitude(Tail(s)) ELSE Magnitude(s)

CommitmentCallsMade == SelectSeq(calls, LAMBDA c : c.h = "onNewCommitment")

\* C5: for a well-formed frame with N entries under shield.commitment,
\* onNewCommitment is invoked exactly N times, in index order, the i-th call
\* with commitments[i] and with the integer shield.leaf_index[i] denotes, or
\* with -1 when the leaf-index array is missing or has no entry at i. (An
\* entry that denotes no integer is the case of C6.)
C5_OneCallPerCommitment ==
  (last.op = "message" /\ WellFormed(frame)) =>
    LET cs == EntriesOf(frame, "shield.commitment")
        ls == EntriesOf(frame, "shield.leaf_index")
        got == CommitmentCallsMade
    IN /\ Len(got) = Len(cs)
       /\ \A i \in 1..Len(cs) :
            /\ got[i].a = cs[i]
            /\ i > Len(ls) => got[i].leafIndex = Num(-1)
            /\ (i <= Len(ls) /\ IsDecimal(ls[i].s)) => got[i].leafIndex = Num(IntValue(ls[i].s))

\* two commitments in order, the first with leaf index "0", the second with none
C5_Witness ==
  /\ last.op = "message"
  /\ EntriesOf(frame, "shield.commitment") = <<JStr(<<"b">>), JStr(<<"a">>)>>
  /\ EntriesOf(frame, "shield.leaf_index") = <<JStr(<<"0">>)>>
  /\ calls = <<NewCommitment(JStr(<<"b">>), Num(0)), NewCommitment(JStr(<<"a">>), Num(-1))>>

\* C6: when the shield.leaf_index entry paired with a commitment is present
\* but not numeric (here: it holds no digit), the call for that commitment
\* carries the unknown sentinel -1.
C6_NonNumericIsSentinel ==
  (last.op = "message" /\ WellFormed(frame)) =>
    LET cs == EntriesOf(frame, "shield.commitment")
        ls == EntriesOf(frame, "shield.leaf_index")
        got == CommitmentCallsMade
    IN \A i \in 1..Len(cs) :
         (i <= Len(ls) /\ i <= Len(got) /\ \A k \in DOMAIN ls[i].s : ls[i].s[k] \notin Digits)
           => got[i].leafIndex = Num(-1)

\* C7: start() after stop() clears the stopped flag and makes exactly one
\* connection attempt, and the connection stop() closed plays no further
\* part: its late close event schedules no reconnect.
C7_RestartIsFresh ==
  [][/\ (halted /\ last'.op = "start") =>
          /\ ~stopped'
          /\ last'.tried = 1
          /\ Cardinality({s \in SockIds : socks[s] = "FREE" /\ socks'[s] # "FREE"})
               + last'.errs = 1
     /\ (last'.op = "close" /\ socks[last'.sock] = "CLOSING") =>
          /\ reconnectTimer' = reconnectTimer
          /\ last'.tried = 0]_vars

\* C8: the two subscribe requests sent on one open never have the same id,
\* and ids never decrease over successive requests.
C8_DistinctIds ==
  [][last'.op = "open" =>
       /\ \A i \in DOMAIN last'.sent : last'.sent[i].id >= clock
       /\ \A i, j \in DOMAIN last'.sent :
            i < j => (last'.sent[i].id <= last'.sent[j].id
                      /\ last'.sent[i].id # last'.sent[j].id)]_vars

\* C9: stop() on a listener that was never started raises nothing, opens and
\* closes no connection, sets no timer and leaves the listener Disconnected;
\* a stop() right after a stop() changes nothing.
C9_StopBeforeStart ==
  [][last'.op = "stop" =>
       /\ ~last'.threw
       /\ ~everStarted =>
            /\ socks' = socks
            /\ \A s \in SockIds : socks'[s] = "FREE"
            /\ ws' = 0
            /\ reconnectTimer' = 0
            /\ last'.tried = 0
            /\ ConnState' = "Disconnected"
       /\ last.op = "stop" => UNCHANGED <<stopped, ws, reconnectTimer, socks>>]_vars

\* stop() returned on a listener start() was never called on
C9_Witness == ~everStarted /\ last.op = "stop" /\ halted /\ stopped

\* C10: initializeAgentIdentity with no mnemonic configured returns null and
\* makes no call on the collaborator: no ClawChainAgent is constructed, and
\* initialize, isRegistered and register are never invoked.
C10_NoMnemonicNoCalls ==
  ~Truthy(cfg.mnemonic) =>
    /\ agentCalls = <<>>
    /\ ipc \in {"entry", "done"}
    /\ ipc = "done" => result = Absent

\* the call returned with config.mnemonic undefined
C10_Witness == cfg.mnemonic = Undefined /\ ipc = "done" /\ result = Absent

\* the calls of op made on the agent in this call of initializeAgentIdentity
CallsOf(op) == SelectSeq(agentCalls, LAMBDA c : c.op = op)
\* how the only call of op ended, "none" when op was not called
OutcomeOf(op) == IF CallsOf(op) = <<>> THEN "none" ELSE CallsOf(op)[1].out

\* C11: when initialize() succeeds and isRegistered() reports true,
\* initializeAgentIdentity returns registered=true, autoRegistered=false and
\* never calls register(), whatever autoRegister is.
C11_RegisteredSkipsRegister ==
  OutcomeOf("isRegistered") = "true" =>
    /\ OutcomeOf("initialize") = "ok"
    /\ CallsOf("register") = <<>>
    /\ ipc = "done"
    /\ result = Populated(TRUE, FALSE)

\* the call returned for a registered identity with autoRegister set to true
C11_Witness ==
  /\ OutcomeOf("isRegistered") = "true"
  /\ cfg.autoRegister = JBool(TRUE)
  /\ ipc = "done"

\* C12: when the registration attempt fails, by a non-zero result code or
\* by a throw, initializeAgentIdentity raises nothing and returns a populated
\* result with registered=false, autoRegistered=false, having called
\* register() exactly once.
C12_FailedRegisterDegrades ==
  /\ ipc # "threw"
  /\ Len(CallsOf("register")) <= 1
  /\ OutcomeOf("register") \in {"code5", "throws"} =>
       /\ ipc = "done"
       /\ result = Populated(FALSE, FALSE)

\* register() threw and the call returned
C12_Witness ==
  OutcomeOf("register") = "throws" /\ ipc = "done" /\ result.present

\* C13: when isRegistered() fails, bootstrap does not abort: the status
\* counts as not registered and, unless autoRegister is false, exactly one
\* register() is attempted in the same call.
C13_FailedQueryStillRegisters ==
  OutcomeOf("isRegistered") = "throws" =>
    /\ ipc \in {"register", "done"}
    /\ ipc = "done" => result.present
    /\ IF cfg.autoRegister = JBool(FALSE)
       THEN CallsOf("register") = <<>> /\ result = Populated(FALSE, FALSE)
       ELSE Len(CallsOf("register")) = 1

\* isRegistered() threw, autoRegister is unset, and register() was called
C13_Witness ==
  /\ OutcomeOf("isRegistered") = "throws"
  /\ cfg.autoRegister = Undefined
  /\ OutcomeOf("register") = "code0"
  /\ result = Populated(TRUE, TRUE)

\* C15: register() is attempted in a bootstrap call if and only if the
\* identity is not known to be registered (isRegistered() said false or
\* threw) and autoRegister is not false; with autoRegister=false and an
\* unregistered identity the result is registered=false, autoRegistered=false.
C15_RegisterIffUnregisteredAndEnabled ==
  /\ CallsOf("register") # <<>>
       <=> (OutcomeOf("isRegistered") \in {"false", "throws"}
            /\ cfg.autoRegister # JBool(FALSE))
  /\ (OutcomeOf("isRegistered") \in {"false", "throws"} /\ cfg.autoRegister = JBool(FALSE))
       => (ipc = "done" /\ result = Populated(FALSE, FALSE))

\* an unregistered identity with autoRegister=false: the call returned without register()
C15_Witness ==
  /\ OutcomeOf("isRegistered") = "false"
  /\ cfg.autoRegister = JBool(FALSE)
  /\ ipc = "done"
  /\ CallsOf("register") = <<>>

\* the latest call of initializeAgentIdentity ended on a throw of initialize()
InitializeFailed == OutcomeOf("initialize") = "throws"

\* C14: when agent.initialize() fails, initializeAgentIdentity returns null
\* without calling isRegistered() or register(), and initializeBlockchain
\* returns {} leaving chainAgent, chainClient and eventListener as they
\* were (null, when no earlier call set them) and creating no listener.
C14_FailedInitLeavesNothing ==
  /\ [](InitializeFailed =>
          /\ CallsOf("isRegistered") = <<>>
          /\ CallsOf("register") = <<>>
          /\ ipc = "done"
          /\ result = Absent
          /\ inits = 1 => /\ chainAgent = 0 /\ chainClient = 0 /\ eventListener = 0
                          /\ agents = <<>> /\ listeners = <<>>)
  /\ [][(InitializeFailed /\ cpc = "awaiting" /\ cpc' = "idle") =>
          /\ creturn' = [kind |-> "empty"]
          /\ UNCHANGED <<chainAgent, chainClient, eventListener, agents, listeners>>]_vars

\* the first call of initializeBlockchain returned after initialize() threw
C14_Witness ==
  /\ InitializeFailed
  /\ inits = 1
  /\ cpc = "idle"
  /\ creturn = [kind |-> "empty"]

\* C16: a ChainEventListener is created and started only in the step of
\* initializeBlockchain that follows a populated result of
\* initializeAgentIdentity: never for a disabled extension, an absent mnemonic
\* or a failed initialize(), and never before bootstrap has returned. The
\* listeners that exist change only by being stopped.
C16_ListenerOnlyAfterBootstrap ==
  /\ [](Len(listeners) = Len(agents))
  /\ [][/\ (Len(listeners') # Len(listeners) \/ eventListener' \notin {0, eventListener}) =>
             /\ cpc = "awaiting" /\ cpc' = "idle"
             /\ ipc = "done"
             /\ result.present
             /\ Truthy(enabled)
             /\ Truthy(cfg.mnemonic)
             /\ OutcomeOf("initialize") = "ok"
             /\ Len(listeners') = Len(listeners) + 1
             /\ eventListener' = Len(listeners')
             /\ ~listeners'[eventListener'].stopped
             /\ (listeners'[eventListener'].ws # 0 \/ listeners'[eventListener'].reconnectTimer # 0)
        /\ \A l \in 1..Len(listeners) :
             l <= Len(listeners') /\ (listeners'[l] = listeners[l] \/ listeners'[l].stopped)]_vars

\* a call returned the identity and its listener holds a connecting socket
C16_Witness ==
  /\ creturn.kind = "identity"
  /\ eventListener # 0
  /\ listeners[eventListener].ws # 0
  /\ ipc = "done"

\* C17: in every state of the coordinator, also before and during a call
\* of initializeBlockchain, shutdownBlockchain() does not throw, stops the
\* listener before it shuts the agent down, leaves eventListener, chainAgent
\* and chainClient null, and a second call right after it does nothing; no
\* agent has shutdown() called on it twice.
C17_ShutdownIdempotent ==
  LET S1 == shutdownBlockchain(CoordSelf)
      S2 == shutdownBlockchain([S1 EXCEPT !.ops = <<>>])
  IN /\ ~S1.threw
     /\ S1.eventListener = 0 /\ S1.chainAgent = 0 /\ S1.chainClient = 0
     /\ S1.ops = (IF eventListener # 0 THEN <<"listener.stop">> ELSE <<>>)
                   \o (IF chainAgent # 0 THEN <<"agent.shutdown">> ELSE <<>>)
     /\ eventListener # 0 =>
          /\ S1.listeners[eventListener].stopped
          /\ S1.listeners[eventListener].ws = 0
          /\ S1.listeners[eventListener].reconnectTimer = 0
     /\ S2 = [S1 EXCEPT !.ops = <<>>]
     /\ \A a \in 1..Len(S1.agents) : S1.agents[a].shutdowns <= 1
     /\ ~teardown.threw

\* shutdownBlockchain() ran after a completed startup, and once more
C17_Witness ==
  /\ teardown.ops = <<>> /\ ~teardown.threw
  /\ Len(agents) = 1 /\ agents[1].shutdowns = 1
  /\ listeners[1].stopped
  /\ eventListener = 0 /\ chainAgent = 0 /\ chainClient = 0

\* C18: checkChainHeartbeat never throws. A response whose status is not
\* a success gives alive=false with `HTTP <status>` as error; a rejected
\* fetch, and a body that is not JSON, give alive=false with the text of the
\* exception; a success response with a JSON body gives alive=true with no
\* error, with the integer latest_block_height denotes as height when that
\* field is a decimal integer, and with no height when the field is absent.
\* No step of the call changes a variable of the listener or the coordinator.
C18_HeartbeatMapsOutcomes ==
  /\ [](hpc # "threw")
  /\ [](hpc = "done" =>
          /\ Len(gets) = 1
          /\ fetched.kind \in {"rejected", "response"}
          /\ fetched.kind = "rejected" =>
               heartbeat = [alive |-> FALSE, height |-> Undefined,
                            error |-> ExceptionText(fetched.err)]
          /\ (fetched.kind = "response" /\ ~Ok(fetched.status)) =>
               heartbeat = [alive |-> FALSE, height |-> Undefined,
                            error |-> HttpError(fetched.status)]
          /\ (fetched.kind = "response" /\ Ok(fetched.status) /\ ~body.json) =>
               (~heartbeat.alive /\ heartbeat.height = Undefined
                /\ heartbeat.error.text = "String(err)")
          /\ (fetched.kind = "response" /\ Ok(fetched.status) /\ body.json) =>
               LET h == LatestBlockHeight(body.value)
               IN /\ heartbeat.alive
                  /\ heartbeat.error = NoError
                  /\ h = Undefined => heartbeat.height = Undefined
                  /\ (h.t = "str" /\ IsDecimal(h.s)) =>
                       heartbeat.height = Num(IntValue(h.s)))
  /\ [][hpc' # hpc => UNCHANGED <<listenerVars, frameVars, coordVars>>]_vars

\* a success response with latest_block_height "42" was turned into a result
C18_Witness ==
  /\ hpc = "done"
  /\ fetched = [kind |-> "response", status |-> 200]
  /\ body = StatusBody(JStr(<<"4", "2">>))
  /\ heartbeat.height = Num(42)

\* C19: a call of checkChainHeartbeat that has not returned has a step to
\* take, also when the node accepted the request and never answers: the
\* wait for the response is ended by the call itself.
C19_HeartbeatReturns == hpc = "done" \/ ENABLED NextHeartbeat

\* the payload carries an error field
HasError(r) == r.type = "json" /\ "error" \in DOMAIN r.data
\* the awaited calls of this execute that threw
ThrownCalls == SelectSeq(toolCalls, LAMBDA c : c.out = "throws")
\* the tools that need the agent, and those that need the client
NeedsAgent ==
  { "clawchain_balance", "clawchain_shielded_balance", "clawchain_shield",
    "clawchain_unshield", "clawchain_private_transfer", "clawchain_register" }
NeedsClient == { "clawchain_status", "clawchain_balance", "clawchain_merkle_root", "clawchain_agent_info" }
\* no positive number can be read from params.amount
AmountUnusable ==
  LET v == Get(params, "amount")
  IN ~(\/ v.t = "num" /\ v.n > 0
       \/ v.t = "str" /\ IsDecimal(Trim(v.s)) /\ IntValue(Trim(v.s)) > 0)

\* C20: execute of every tool, in each state of the handles and for every
\* params, never throws and returns a json payload; the payload carries an
\* error field when the handle the tool needs is null, when a required
\* parameter (amount of shield, unshield and private_transfer;
\* recipientAddress of private_transfer) is missing or unusable, and when an
\* awaited call on the client or the agent threw.
C20_ToolsReturnPayloads ==
  /\ tpc # "threw"
  /\ tpc \in {"entry", "await", "done"}
  /\ tpc = "done" =>
       /\ payload.type = "json"
       /\ (tool \in NeedsAgent /\ chainAgent = 0) => HasError(payload)
       /\ (tool \in NeedsClient /\ chainClient = 0) => HasError(payload)
       /\ (tool \in {"clawchain_shield", "clawchain_unshield", "clawchain_private_transfer"}
           /\ AmountUnusable) => HasError(payload)
       /\ tool = "clawchain_private_transfer" => HasError(payload)
       /\ ThrownCalls # <<>> => HasError(payload)
  /\ tpc = "await" => (toolCalls # <<>> /\ toolCalls[Len(toolCalls)].out = "pending")

\* clawchain_balance returned an error payload for an agent without a client
C20_Witness ==
  /\ tool = "clawchain_balance"
  /\ chainAgent # 0 /\ chainClient = 0
  /\ tpc = "done"
  /\ HasError(payload)

\* the sockets the listener created that are connecting or open
LiveSocks == {s \in SockIds : socks[s] \in {"CONNECTING", "OPEN"}}

\* C21: at any time at most one connection created by the listener is
\* connecting or open, and it is the one this.ws references.
C21_OneLiveConnection ==
  /\ Cardinality(LiveSocks) <= 1
  /\ \A s \in LiveSocks : ws = s

\* C22: after stop() has returned and until start() is called again, no
\* onNewCommitment or onAgentRegistered handler is invoked.
C22_NoCallsAfterStop == halted => calls = <<>>

\* shutdownBlockchain() ran last while the latest call of
\* initializeBlockchain was suspended at its await, and that call has returned
ShutdownOvertaken == cpc = "idle" /\ teardown.during = "awaiting" /\ teardown.at = inits

\* the listeners that were started and not stopped since
Running == {l \in 1..Len(listeners) : ~listeners[l].stopped}

\* C23: when shutdownBlockchain() ran while initializeBlockchain() was
\* suspended in its await, then once both have finished no listener is
\* running and chainAgent and chainClient are null.
C23_ShutdownNotUndone ==
  ShutdownOvertaken =>
    /\ Running = {}
    /\ eventListener = 0
    /\ chainAgent = 0
    /\ chainClient = 0

\* the agents initializeBlockchain received that were not shut down
Unreleased(as) == {a \in 1..Len(as) : as[a].shutdowns = 0}

\* C24: after every sequence of initializeBlockchain() and
\* shutdownBlockchain() calls at most one started listener and at most one
\* agent that was not shut down exist, and one shutdownBlockchain() leaves no
\* listener running and no agent that was not shut down.
C24_OneListenerOneAgent ==
  LET S1 == shutdownBlockchain(CoordSelf)
  IN /\ Cardinality(Running) <= 1
     /\ Cardinality(Unreleased(agents)) <= 1
     /\ \A l \in 1..Len(S1.listeners) : S1.listeners[l].stopped
     /\ Unreleased(S1.agents) = {}

\* the operations of the awaited calls made on the agent, in order
AwaitedOps ==
  LET cs == SelectSeq(agentCalls, LAMBDA c : c.op \in {"initialize", "isRegistered", "register"})
  IN [i \in 1..Len(cs) |-> cs[i].op]

\* C25: a populated result of initializeAgentIdentity has autoRegistered
\* only with registered, and has autoRegistered exactly when register() was
\* called in this call and answered with code 0; one call invokes
\* initialize(), isRegistered() and register() at most once each, in that order.
C25_ResultConsistent ==
  /\ AwaitedOps \in { <<>>, <<"initialize">>, <<"initialize", "isRegistered">>,
                      <<"initialize", "isRegistered", "register">> }
  /\ (ipc = "done" /\ result.present) =>
       /\ result.autoRegistered => result.registered
       /\ result.autoRegistered <=> OutcomeOf("register") = "code0"
       /\ result.registered <=>
            (OutcomeOf("isRegistered") = "true" \/ OutcomeOf("register") = "code0")

\* register() was answered with code 0 and the call returned both flags set
C25_Witness ==
  /\ ipc = "done"
  /\ result = Populated(TRUE, TRUE)
  /\ OutcomeOf("register") = "code0"

====
